---- MODULE Spec2Model ----
(***************************************************************************)
(* The exit workflows and the vehicle list of the terminal mini-app as a   *)
(* state machine (Spec, FairSpec), the sizing of a captured frame          *)
(* (CaptureSpec) and the focus handling of the shell (LayoutSpec).         *)
(*                                                                         *)
(* One route component is mounted at a time (page).  The useState hooks    *)
(* that ExitEntryPage and ExitByIdPage both declare (isCameraOpen,         *)
(* isCameraLoading, isSubmittingExit, plateNumber, exitLoadStatus,         *)
(* recognitionResult) are one variable each, owned by the mounted page.    *)
(* Every handler runs to its first await as one step (React flushes the    *)
(* state updates of a discrete event before the next event is handled);    *)
(* the code after an await is a separate step, taken when the awaited      *)
(* network call, timer or camera request settles.                          *)
(***************************************************************************)
EXTENDS Integers, Sequences, FiniteSets, TLC

VARIABLES
    page,                   \* the mounted route component
    isLoadingVehicle,       \* ExitByIdPage
    vehicleData,            \* ExitByIdPage: the expected entry, its license_plate
    isCameraOpen,
    isCameraLoading,
    isSubmitting,           \* ExitEntryPage: a recognition request is outstanding
    isRecognizing,          \* ExitByIdPage: a recognition request is outstanding
    isSubmittingExit,
    allPhotos,              \* ExitEntryPage: sequence of captured images
    currentProcessingIndex, \* ExitEntryPage: 0-based index, -1 when none
    capturedImage,          \* ExitEntryPage: the accepted image or null
    capturedPhoto,          \* ExitByIdPage: the one photo held or null
    recognitionResult,
    plateNumber,
    exitLoadStatus,
    recognizing,            \* recognition requests in flight, oldest first
    exitRequests,           \* number of exit POSTs in flight
    posted,                 \* the form data the last step POSTed to the exit endpoint
    settled,                \* the outcome of the exit POST the last step handled
    pendingOpenCamera,      \* openCamera calls suspended at an await
    navigatePending,        \* a setTimeout(navigate, 1000) callback has not run yet
    dialog,                 \* the Dialog.alert on screen
    cameraStream,           \* the camera service holds an active media stream
    vehicleEntries,         \* VehiclesPage: the entries listed
    isLoadingList,          \* VehiclesPage
    hasMoreData,            \* VehiclesPage
    nextPageUrl,            \* VehiclesPage: the cursor of the next page or null
    listRequests,           \* VehiclesPage: page requests in flight, oldest first
    listSettled,            \* VehiclesPage: the page response the last step handled
    video,                  \* the video element's videoWidth and videoHeight
    canvas,                 \* the capture canvas's width and height
    isInputFocused,         \* Layout: an input or textarea holds the focus
    activeElement,          \* the element of the document that has the focus
    tagName,                \* the tagName of each element of the document
    toast,                  \* what the last step passed to Toast.show
    lastEvent               \* the handler or continuation that ran last

vars == <<page, isLoadingVehicle, vehicleData, isCameraOpen, isCameraLoading,
          isSubmitting, isRecognizing, isSubmittingExit, allPhotos,
          currentProcessingIndex, capturedImage, capturedPhoto,
          recognitionResult, plateNumber, exitLoadStatus, recognizing,
          exitRequests, posted, settled, pendingOpenCamera, navigatePending, dialog,
          cameraStream, vehicleEntries, isLoadingList, hasMoreData, nextPageUrl,
          listRequests, listSettled, video, canvas, isInputFocused, activeElement,
          tagName, toast, lastEvent>>

(***************************************************************************)
(* Bounds of the model.                                                    *)
(***************************************************************************)
MaxPhotos == 2

MaxInFlight == 2

MaxOpening == 1

\* The server's list of entries has at most MaxPages pages of PageSize entries.
MaxPages == 3
\* focusable elements in the document
MaxElements == 3

PageSize == 2

(***************************************************************************)
(* Values.                                                                 *)
(***************************************************************************)
NullImage == "null"

\* Two distinct frame contents; canvas.toDataURL of two frames may coincide.
Images == {"img1", "img2"}

Whitespace == {" "}

\* Strings are sequences of one-character strings.
\* What the user may type into the plate field.
Plates == { <<>>, <<" ">>, <<"B">> }

\* What the recognition service may return as plate_number.
RecognizedPlates == { <<"a", " ">>, <<"B">> }

ExpectedPlates == { <<>>, <<"A">> }

LoadStatuses == {"EMPTY", "LOADED"}

NullResult == [present |-> FALSE, success |-> FALSE, plate_number |-> <<>>]

ServiceResults ==
    {[present |-> TRUE, success |-> TRUE, plate_number |-> p] : p \in RecognizedPlates}
    \cup {[present |-> TRUE, success |-> FALSE, plate_number |-> <<>>]}

\* What submitPhotoWithImage / recognizePlate resolve to: a parsed body, or
\* null on a non-OK status or a thrown error.
RecognitionOutcomes == ServiceResults \cup {NullResult}

NoVehicle == [present |-> FALSE, license_plate |-> <<>>]

NoToast == "none"

NoDialog == "none"

\* Form data lists the values appended under each key.
NoPost == [exit_photo_files |-> <<>>, license_plate |-> <<>>, exit_time |-> <<>>,
           exit_load_status |-> "none"]

\* new Date().toISOString()
Now == "now"

NoOutcome == [kind |-> "none", json |-> FALSE, message |-> ""]

GenericFailure == "generic_failure"

\* A video element without a stream has no frame size.  The sizes of the
\* frames handed to the capture are followed in CaptureSpec only.
NoVideo == [videoWidth |-> 0, videoHeight |-> 0]

\* A canvas element is 300 x 150 until its size is set.
DefaultCanvas == [width |-> 300, height |-> 150]

\* const maxWidth = 1280
maxWidth == 1280

\* const maxHeight = 720
maxHeight == 720

\* Frame sizes of a camera stream: landscape and portrait, 16:9 and 4:3,
\* at, next to and beyond the limits.
VideoWidths == {1, 640, 1280, 1281, 1920, 2560, 3840}

VideoHeights == {1, 480, 720, 721, 1080, 1440, 2160}

\* nextPageUrl === null, and fetchVehicleEntries called without a url.
NullUrl == 0

\* The elements of the document that can take the focus, and document.body
\* standing for no element having it.
Elements == 1..MaxElements
NoElement == 0
\* The tag names an element that takes the focus may have.
Tags == {"INPUT", "TEXTAREA", "BUTTON", "DIV"}

\* The cursor URLs the server hands out: the URL of page p is p.
CursorUrls == 2..MaxPages

NoListOutcome == [kind |-> "none", url |-> NullUrl, next |-> NullUrl]

\* A page request settles with a 2xx status, a non-2xx status, or it throws
\* (fetch rejects, or response.json() does).
ListOutcomeKinds == {"ok", "notOk", "throw"}

ErrorBodies ==
    { [json |-> TRUE,  message |-> "Duplicate entry"],
      [json |-> TRUE,  message |-> ""],
      [json |-> FALSE, message |-> ""] }

\* An exit POST settles with a 2xx status (whose body parses as JSON or not),
\* a non-2xx status with some body, or fetch rejects.
ExitOutcomes ==
    {[kind |-> "ok", json |-> j, message |-> ""] : j \in BOOLEAN}
    \cup {[kind |-> "notOk", json |-> b.json, message |-> b.message] : b \in ErrorBodies}
    \cup {[kind |-> "throw", json |-> FALSE, message |-> ""]}

(***************************************************************************)
(* String functions of the platform, on sequences of characters.           *)
(***************************************************************************)
RECURSIVE trimStart(_)
trimStart(s) ==
    IF s # <<>> /\ Head(s) \in Whitespace THEN trimStart(Tail(s)) ELSE s

RECURSIVE trimEnd(_)
trimEnd(s) ==
    IF s # <<>> /\ s[Len(s)] \in Whitespace
    THEN trimEnd(SubSeq(s, 1, Len(s) - 1))
    ELSE s

\* String.prototype.trim, identity variant: the string is taken untrimmed.
trimNothing(s) == s

\* String.prototype.trim
trim(s) == trimEnd(trimStart(s))

\* s.replace(/\s+/g, '')
removeWhitespace(s) == SelectSeq(s, LAMBDA c : c \notin Whitespace)

upperChar(c) == IF c = "a" THEN "A" ELSE IF c = "b" THEN "B" ELSE c

\* String.prototype.toUpperCase
toUpperCase(s) == [i \in 1..Len(s) |-> upperChar(s[i])]

\* prev.filter((_, i) => i !== index), index 0-based
removeAt(seq, index) ==
    [i \in 1..(Len(seq) - 1) |-> IF i <= index THEN seq[i] ELSE seq[i + 1]]

\* removal of the element at 1-based position k of a queue of requests
dropAt(seq, k) ==
    [i \in 1..(Len(seq) - 1) |-> IF i < k THEN seq[i] ELSE seq[i + 1]]

\* recognitionResult?.success, result && result.success
succeeded(r) == r.present /\ r.success

(***************************************************************************)
(* Init: the route mounts one of the pages.  ExitEntryPage calls           *)
(* openCamera from its mount effect, ExitByIdPage starts fetchVehicleData, *)
(* VehiclesPage calls fetchVehicleEntries() from its mount effect.  No     *)
(* camera stream is active yet.                                            *)
(***************************************************************************)
Init ==
    /\ page \in {"ExitEntryPage", "ExitByIdPage", "VehiclesPage"}
    /\ isLoadingVehicle = (page = "ExitByIdPage")
    /\ vehicleData = NoVehicle
    /\ isCameraOpen = (page = "ExitEntryPage")
    /\ isCameraLoading = (page = "ExitEntryPage")
    /\ isSubmitting = FALSE
    /\ isRecognizing = FALSE
    /\ isSubmittingExit = FALSE
    /\ allPhotos = <<>>
    /\ currentProcessingIndex = -1
    /\ capturedImage = NullImage
    /\ capturedPhoto = NullImage
    /\ recognitionResult = NullResult
    /\ plateNumber = <<>>
    /\ exitLoadStatus = "EMPTY"
    /\ recognizing = <<>>
    /\ exitRequests = 0
    /\ posted = NoPost
    /\ settled = NoOutcome
    /\ pendingOpenCamera = (IF page = "ExitEntryPage" THEN 1 ELSE 0)
    /\ navigatePending = FALSE
    /\ dialog = NoDialog
    /\ cameraStream = FALSE
    /\ vehicleEntries = <<>>
    /\ isLoadingList = (page = "VehiclesPage")
    /\ hasMoreData = TRUE
    /\ nextPageUrl = NullUrl
    /\ listRequests = (IF page = "VehiclesPage" THEN <<[url |-> NullUrl]>> ELSE <<>>)
    /\ listSettled = NoListOutcome
    /\ video = NoVideo
    /\ canvas = DefaultCanvas
    /\ isInputFocused = FALSE
    /\ activeElement = NoElement
    /\ tagName = [e \in Elements |-> "INPUT"]
    /\ toast = NoToast
    /\ lastEvent = "mount"

frameVars == <<video, canvas>>

\* The shell's focus state and the document it listens to.
shellVars == <<isInputFocused, activeElement, tagName>>

\* The user can act on the page: it is mounted and no modal alert masks it.
Interactive(p) == page = p /\ dialog = NoDialog

\* navigate('/vehicles'): the route changes and the page is unmounted.  Its
\* state is gone, and what its suspended handlers do later has no effect.
\* VehiclesPage mounts with its initial state and its mount effect calls
\* fetchVehicleEntries(), which sets isLoadingList and requests the first
\* page.  The camera service outlives the pages.
navigateToVehicles ==
    /\ page' = "VehiclesPage"
    /\ isLoadingVehicle' = FALSE
    /\ vehicleData' = NoVehicle
    /\ isCameraOpen' = FALSE
    /\ isCameraLoading' = FALSE
    /\ isSubmitting' = FALSE
    /\ isRecognizing' = FALSE
    /\ isSubmittingExit' = FALSE
    /\ allPhotos' = <<>>
    /\ currentProcessingIndex' = -1
    /\ capturedImage' = NullImage
    /\ capturedPhoto' = NullImage
    /\ recognitionResult' = NullResult
    /\ plateNumber' = <<>>
    /\ exitLoadStatus' = "EMPTY"
    /\ recognizing' = <<>>
    /\ exitRequests' = 0
    /\ pendingOpenCamera' = 0
    /\ navigatePending' = FALSE
    /\ dialog' = NoDialog
    /\ vehicleEntries' = <<>>
    /\ isLoadingList' = TRUE
    /\ hasMoreData' = TRUE
    /\ nextPageUrl' = NullUrl
    /\ listRequests' = <<[url |-> NullUrl]>>
    /\ listSettled' = NoListOutcome
    /\ UNCHANGED <<cameraStream, frameVars, shellVars>>

(***************************************************************************)
(* openCamera, to its first await (both pages).                            *)
(***************************************************************************)
openCameraStart ==
    /\ isCameraOpen' = TRUE
    /\ isCameraLoading' = TRUE
    /\ pendingOpenCamera' = pendingOpenCamera + 1

byIdVars == <<isLoadingVehicle, vehicleData, isRecognizing, capturedPhoto>>

entryVars == <<isSubmitting, allPhotos, currentProcessingIndex, capturedImage>>

cameraVars == <<isCameraOpen, isCameraLoading, pendingOpenCamera>>

formVars == <<plateNumber, exitLoadStatus, isSubmittingExit, exitRequests>>

listVars == <<vehicleEntries, isLoadingList, hasMoreData, nextPageUrl,
              listRequests, listSettled>>

(***************************************************************************)
(* The camera service: requestCameraAccess returns the stream it holds    *)
(* when one is active; otherwise it asks the device for one, holds it      *)
(* when granted, and reports a failure when not.  A stream it holds stays  *)
(* active until it is released.                                            *)
(***************************************************************************)
requestCameraAccess(granted) == cameraStream' = (cameraStream \/ granted)

\* if (videoRef.current), mutated: the element is taken to be there.
videoElementAlways == TRUE

\* if (videoRef.current): the video element is part of the camera view,
\* which is rendered only while isCameraOpen.
videoElementAvailable == isCameraOpen

(***************************************************************************)
(* openCamera after its awaits (the 150 ms timer, requestCameraAccess,     *)
(* video.play()).  Both outcomes of play() clear the loading flag; a       *)
(* missing stream or a missing video element ends in the catch block,      *)
(* which closes the view and alerts.  The page keeps no reference to the   *)
(* stream but videoRef.current.srcObject.                                  *)
(***************************************************************************)
openCameraSettle(outcome) ==
    /\ page \in {"ExitEntryPage", "ExitByIdPage"}
    /\ pendingOpenCamera > 0
    /\ pendingOpenCamera' = pendingOpenCamera - 1
    /\ isCameraLoading' = FALSE
    /\ requestCameraAccess(outcome # "noStream")
    /\ IF cameraStream' /\ videoElementAvailable
       THEN UNCHANGED <<isCameraOpen, dialog>>
       ELSE /\ isCameraOpen' = FALSE
            /\ dialog' = "cameraError"
    /\ toast' = NoToast
    /\ posted' = NoPost
    /\ settled' = NoOutcome
    /\ lastEvent' = "openCameraSettle"
    /\ UNCHANGED <<page, listVars, frameVars, shellVars, byIdVars, entryVars, formVars, recognitionResult,
                   recognizing, navigatePending>>

\* The alert's OK button: ExitEntryPage navigates to the list (onConfirm),
\* ExitByIdPage only dismisses it.
dialogConfirm ==
    /\ page \in {"ExitEntryPage", "ExitByIdPage"}
    /\ dialog # NoDialog
    /\ IF page = "ExitEntryPage"
       THEN navigateToVehicles
       ELSE /\ dialog' = NoDialog
            /\ UNCHANGED <<page, listVars, frameVars, shellVars, cameraStream,
                           byIdVars, entryVars, cameraVars, formVars,
                           recognitionResult, recognizing, navigatePending>>
    /\ toast' = NoToast
    /\ posted' = NoPost
    /\ settled' = NoOutcome
    /\ lastEvent' = "dialogConfirm"

\* The callback of setTimeout(() => navigate('/vehicles'), 1000).
navigateTimer ==
    /\ page \in {"ExitEntryPage", "ExitByIdPage"}
    /\ navigatePending
    /\ navigateToVehicles
    /\ toast' = NoToast
    /\ posted' = NoPost
    /\ settled' = NoOutcome
    /\ lastEvent' = "navigateTimer"

(***************************************************************************)
(* ExitEntryPage                                                           *)
(***************************************************************************)
\* processPhoto's guard, mutated: the earlier result is never looked at.
Entry_alreadyFoundNever == FALSE

\* processPhoto: "If already found a result, don't process more photos"
Entry_alreadyFound == succeeded(recognitionResult)

\* The capture button's disabled prop, mutated: never disabled.
Entry_captureNeverDisabled == FALSE

\* The capture button's disabled prop.
Entry_captureDisabled == isSubmitting

\* isSuccessfulPhoto of the photo at 1-based position i.
Entry_isSuccessfulPhoto(i) ==
    capturedImage = allPhotos[i] /\ succeeded(recognitionResult)

\* capturePhoto with processPhoto to its await; img is the encoded frame.
Entry_capturePhoto(img) ==
    /\ Interactive("ExitEntryPage")
    /\ isCameraOpen
    /\ ~Entry_captureDisabled
    /\ Len(allPhotos) < MaxPhotos
    /\ allPhotos' = Append(allPhotos, img)
    /\ IF Entry_alreadyFound
       THEN UNCHANGED <<isSubmitting, currentProcessingIndex, recognizing>>
       ELSE /\ Len(recognizing) < MaxInFlight
            /\ isSubmitting' = TRUE
            /\ currentProcessingIndex' = Len(allPhotos)
            /\ recognizing' = Append(recognizing, [imageData |-> img])
    /\ toast' = NoToast
    /\ posted' = NoPost
    /\ settled' = NoOutcome
    /\ lastEvent' = "capturePhoto"
    /\ UNCHANGED <<page, listVars, frameVars, shellVars, cameraStream,
                   byIdVars, capturedImage, cameraVars, formVars,
                   recognitionResult, navigatePending, dialog>>

\* The test of the result, mutated: any parsed body counts as a recognition.
Entry_acceptsAnyBody(result) == result.present

\* The test of the result, mutated: a result is dropped once the view is closed.
Entry_acceptsWhileOpen(result) == succeeded(result) /\ isCameraOpen

\* processPhoto's test of the result: result && result.success, whatever the
\* camera view's state.
Entry_accepts(result) == succeeded(result)

\* The end of processPhoto, mutated: the processing index is left as it is.
Entry_resetsFlagOnly(result) ==
    isSubmitting' = FALSE /\ UNCHANGED currentProcessingIndex

\* The end of processPhoto, mutated: only an accepted result resets the flags.
Entry_resetsBusyOnSuccess(result) ==
    IF succeeded(result)
    THEN isSubmitting' = FALSE /\ currentProcessingIndex' = -1
    ELSE UNCHANGED <<isSubmitting, currentProcessingIndex>>

\* The end of processPhoto: the success path, the failure path and the catch
\* block all call setIsSubmitting(false) and setCurrentProcessingIndex(-1).
Entry_resetsBusy(result) ==
    isSubmitting' = FALSE /\ currentProcessingIndex' = -1

\* processPhoto after submitPhotoWithImage settles for the k-th request.
Entry_processPhotoSettle(k, result) ==
    /\ page = "ExitEntryPage"
    /\ k \in 1..Len(recognizing)
    /\ recognizing' = dropAt(recognizing, k)
    /\ IF Entry_accepts(result)
       THEN /\ capturedImage' = recognizing[k].imageData
            /\ recognitionResult' = result
            /\ plateNumber' = result.plate_number
       ELSE UNCHANGED <<capturedImage, recognitionResult, plateNumber>>
    /\ Entry_resetsBusy(result)
    /\ toast' = NoToast
    /\ posted' = NoPost
    /\ settled' = NoOutcome
    /\ lastEvent' = IF result.present /\ result.success
                    THEN "processPhoto:success" ELSE "processPhoto:failure"
    /\ UNCHANGED <<page, listVars, frameVars, shellVars, cameraStream,
                   byIdVars, allPhotos, cameraVars, exitLoadStatus,
                   isSubmittingExit, exitRequests, navigatePending, dialog>>

\* The delete control of the photo at 0-based index: always there in the
\* photo grid, hidden in the camera thumbnails while isProcessing.
Entry_deleteOffered(index) ==
    /\ index \in 0..(Len(allPhotos) - 1)
    /\ isCameraOpen => currentProcessingIndex # index

\* The test in deletePhoto, mutated: the accepted result is never cleared.
Entry_deletesNothingAccepted(photoToDelete) == FALSE

\* deletePhoto: photoToDelete === capturedImage && recognitionResult?.success
Entry_deletesSuccessful(photoToDelete) ==
    photoToDelete = capturedImage /\ succeeded(recognitionResult)

Entry_deletePhoto(index) ==
    /\ Interactive("ExitEntryPage")
    /\ Entry_deleteOffered(index)
    /\ allPhotos' = removeAt(allPhotos, index)
    /\ IF Entry_deletesSuccessful(allPhotos[index + 1])
       THEN /\ pendingOpenCamera < MaxOpening
            /\ capturedImage' = NullImage
            /\ recognitionResult' = NullResult
            /\ plateNumber' = <<>>
            /\ openCameraStart
       ELSE UNCHANGED <<capturedImage, recognitionResult, plateNumber, cameraVars>>
    /\ toast' = NoToast
    /\ posted' = NoPost
    /\ settled' = NoOutcome
    /\ lastEvent' = "deletePhoto"
    /\ UNCHANGED <<page, listVars, frameVars, shellVars, cameraStream,
                   byIdVars, isSubmitting, currentProcessingIndex,
                   exitLoadStatus, isSubmittingExit, exitRequests, recognizing,
                   navigatePending, dialog>>

\* The "Kamera" button of the photo grid.
Entry_openCamera ==
    /\ Interactive("ExitEntryPage")
    /\ ~isCameraOpen
    /\ pendingOpenCamera < MaxOpening
    /\ openCameraStart
    /\ toast' = NoToast
    /\ posted' = NoPost
    /\ settled' = NoOutcome
    /\ lastEvent' = "openCamera"
    /\ UNCHANGED <<page, listVars, frameVars, shellVars, cameraStream,
                   byIdVars, entryVars, formVars, recognitionResult,
                   recognizing, navigatePending, dialog>>

\* The X button of the camera view, and the back button while it is open.
Entry_goBack ==
    /\ Interactive("ExitEntryPage")
    /\ isCameraOpen
    /\ IF Len(allPhotos) = 0
       THEN navigateToVehicles
       ELSE /\ isCameraOpen' = FALSE
            /\ UNCHANGED <<page, listVars, frameVars, shellVars, cameraStream,
                           byIdVars, entryVars, isCameraLoading,
                           pendingOpenCamera, formVars, recognitionResult,
                           recognizing, navigatePending, dialog>>
    /\ toast' = NoToast
    /\ posted' = NoPost
    /\ settled' = NoOutcome
    /\ lastEvent' = "goBack"

\* The Done button of the camera view.
Entry_done ==
    /\ Interactive("ExitEntryPage")
    /\ isCameraOpen
    /\ isCameraOpen' = FALSE
    /\ toast' = NoToast
    /\ posted' = NoPost
    /\ settled' = NoOutcome
    /\ lastEvent' = "done"
    /\ UNCHANGED <<page, listVars, frameVars, shellVars, cameraStream,
                   byIdVars, entryVars, isCameraLoading, pendingOpenCamera,
                   formVars, recognitionResult, recognizing, navigatePending, dialog>>

\* The back button while the camera view is closed.
Entry_handleBackNavigation ==
    /\ Interactive("ExitEntryPage")
    /\ ~isCameraOpen
    /\ navigateToVehicles
    /\ toast' = NoToast
    /\ posted' = NoPost
    /\ settled' = NoOutcome
    /\ lastEvent' = "handleBackNavigation"

\* The submit button's disabled prop, mutated: the button is never disabled.
submitNeverDisabled == FALSE

\* The submit button of both pages: disabled={isSubmittingExit}.
submitDisabled == isSubmittingExit

\* The submit button is rendered: plateNumber.trim() && allPhotos.length > 0,
\* in the view shown while the camera is closed.
Entry_submitOffered ==
    /\ ~isCameraOpen
    /\ trim(plateNumber) # <<>>
    /\ Len(allPhotos) > 0

\* errorJson.error?.message || generic, mutated: the body is never looked at.
errorMessageIgnored(outcome) == GenericFailure

\* The notice for a non-2xx body: JSON.parse, then
\* errorJson.error?.message || generic; a body that does not parse is generic.
errorMessage(outcome) ==
    IF outcome.json /\ outcome.message # "" THEN outcome.message ELSE GenericFailure

\* The form data, mutated: only the accepted image is sent.
Entry_formDataAcceptedOnly ==
    [exit_photo_files |-> IF capturedImage = NullImage THEN <<>> ELSE <<capturedImage>>,
     license_plate |-> trim(plateNumber),
     exit_time |-> <<Now>>,
     exit_load_status |-> exitLoadStatus]

\* The form data of submitExitEntry: one file per photo of allPhotos in its
\* order, the trimmed plate, the time of the submit, the load status.
Entry_formData ==
    [exit_photo_files |-> allPhotos,
     license_plate |-> trim(plateNumber),
     exit_time |-> <<Now>>,
     exit_load_status |-> exitLoadStatus]

\* submitExitEntry to its await (the fetch of the exit endpoint).
Entry_submitExitEntry ==
    /\ Interactive("ExitEntryPage")
    /\ Entry_submitOffered
    /\ ~submitDisabled
    /\ IF trim(plateNumber) = <<>>
       THEN /\ toast' = "enter_plate"
            /\ posted' = NoPost
            /\ settled' = NoOutcome
            /\ UNCHANGED <<isSubmittingExit, exitRequests>>
       ELSE IF Len(allPhotos) = 0
       THEN /\ toast' = "take_photo"
            /\ posted' = NoPost
            /\ settled' = NoOutcome
            /\ UNCHANGED <<isSubmittingExit, exitRequests>>
       ELSE /\ exitRequests < MaxInFlight
            /\ isSubmittingExit' = TRUE
            /\ exitRequests' = exitRequests + 1
            /\ posted' = Entry_formData
            /\ settled' = NoOutcome
            /\ toast' = NoToast
    /\ lastEvent' = "submitExitEntry"
    /\ UNCHANGED <<page, listVars, frameVars, shellVars, cameraStream,
                   byIdVars, entryVars, cameraVars, plateNumber,
                   exitLoadStatus, recognitionResult, recognizing,
                   navigatePending, dialog>>

\* submitExitEntry after the fetch of one request in flight settles.
Entry_submitExitEntrySettle(outcome) ==
    /\ page = "ExitEntryPage"
    /\ exitRequests > 0
    /\ exitRequests' = exitRequests - 1
    /\ posted' = NoPost
    /\ settled' = outcome
    /\ CASE outcome.kind = "notOk" ->
                /\ toast' = errorMessage(outcome)
                /\ UNCHANGED navigatePending
         [] outcome.kind = "ok" /\ outcome.json ->
                /\ toast' = "success"
                /\ navigatePending' = TRUE
         [] OTHER ->  \* fetch rejected, or response.json() threw
                /\ toast' = "exception"
                /\ UNCHANGED navigatePending
    /\ isSubmittingExit' = FALSE
    /\ lastEvent' = "submitExitEntrySettle"
    /\ UNCHANGED <<page, listVars, frameVars, shellVars, cameraStream,
                   byIdVars, entryVars, cameraVars, plateNumber,
                   exitLoadStatus, recognitionResult, recognizing, dialog>>

(***************************************************************************)
(* The form controls both pages render.                                    *)
(***************************************************************************)
\* The plate Input is rendered.
plateInputOffered ==
    /\ ~isCameraOpen
    /\ page = "ExitByIdPage" =>
          ~isLoadingVehicle /\ capturedPhoto # NullImage /\ ~isRecognizing

\* Input onChange={setPlateNumber}
setPlateNumber(p) ==
    /\ Interactive("ExitEntryPage") \/ Interactive("ExitByIdPage")
    /\ plateInputOffered
    /\ p # plateNumber
    /\ plateNumber' = p
    /\ toast' = NoToast
    /\ posted' = NoPost
    /\ settled' = NoOutcome
    /\ lastEvent' = "setPlateNumber"
    /\ UNCHANGED <<page, listVars, frameVars, shellVars, cameraStream,
                   byIdVars, entryVars, cameraVars, exitLoadStatus,
                   isSubmittingExit, exitRequests, recognitionResult,
                   recognizing, navigatePending, dialog>>

\* Radio.Group onChange
setExitLoadStatus(v) ==
    /\ Interactive("ExitEntryPage") \/ Interactive("ExitByIdPage")
    /\ plateInputOffered
    /\ v # exitLoadStatus
    /\ exitLoadStatus' = v
    /\ toast' = NoToast
    /\ posted' = NoPost
    /\ settled' = NoOutcome
    /\ lastEvent' = "setExitLoadStatus"
    /\ UNCHANGED <<page, listVars, frameVars, shellVars, cameraStream,
                   byIdVars, entryVars, cameraVars, plateNumber,
                   isSubmittingExit, exitRequests, recognitionResult,
                   recognizing, navigatePending, dialog>>

(***************************************************************************)
(* ExitByIdPage                                                            *)
(***************************************************************************)
\* fetchVehicleData after its fetch settles.
ById_fetchVehicleDataSettle(ok, plate) ==
    /\ page = "ExitByIdPage"
    /\ isLoadingVehicle
    /\ IF ok
       THEN /\ vehicleData' = [present |-> TRUE, license_plate |-> plate]
            /\ isLoadingVehicle' = FALSE
            /\ toast' = NoToast
            /\ posted' = NoPost
            /\ settled' = NoOutcome
            /\ UNCHANGED <<page, listVars, frameVars, shellVars, cameraStream,
                           isRecognizing, capturedPhoto, entryVars,
                           cameraVars, formVars, recognitionResult, recognizing,
                           navigatePending, dialog>>
       ELSE /\ toast' = "load_failed"
            /\ posted' = NoPost
            /\ settled' = NoOutcome
            /\ navigateToVehicles
    /\ lastEvent' = "fetchVehicleDataSettle"

\* The "take a photo" button, rendered while no photo is held.
ById_openCamera ==
    /\ Interactive("ExitByIdPage")
    /\ ~isLoadingVehicle
    /\ ~isCameraOpen
    /\ capturedPhoto = NullImage
    /\ pendingOpenCamera < MaxOpening
    /\ openCameraStart
    /\ toast' = NoToast
    /\ posted' = NoPost
    /\ settled' = NoOutcome
    /\ lastEvent' = "openCamera"
    /\ UNCHANGED <<page, listVars, frameVars, shellVars, cameraStream,
                   byIdVars, entryVars, formVars, recognitionResult,
                   recognizing, navigatePending, dialog>>

\* The capture button of the camera view: it has no disabled prop.
ById_captureOffered == isCameraOpen

\* handleCameraCapture with capturePhoto, to the await of recognizePlate.
ById_handleCameraCapture(img) ==
    /\ Interactive("ExitByIdPage")
    /\ ById_captureOffered
    /\ Len(recognizing) < MaxInFlight
    /\ capturedPhoto' = img
    /\ isCameraOpen' = FALSE
    /\ isRecognizing' = TRUE
    /\ recognitionResult' = NullResult
    /\ recognizing' = Append(recognizing, [imageData |-> img])
    /\ toast' = NoToast
    /\ posted' = NoPost
    /\ settled' = NoOutcome
    /\ lastEvent' = "handleCameraCapture"
    /\ UNCHANGED <<page, listVars, frameVars, shellVars, cameraStream,
                   isLoadingVehicle, vehicleData, entryVars, isCameraLoading,
                   pendingOpenCamera, formVars, navigatePending, dialog>>

\* The comparison, mutated: the strings are compared as returned.
ById_plateMismatchRaw(plate_number, license_plate) ==
    license_plate # <<>> /\ plate_number # license_plate

\* vehiclePlate && recognizedPlate !== vehiclePlate, both with whitespace
\* removed and uppercased.
ById_plateMismatch(plate_number, license_plate) ==
    LET recognizedPlate == toUpperCase(removeWhitespace(plate_number))
        vehiclePlate == toUpperCase(removeWhitespace(license_plate))
    IN  vehiclePlate # <<>> /\ recognizedPlate # vehiclePlate

\* handleCameraCapture after recognizePlate settles for the k-th request.
ById_handleCameraCaptureSettle(k, result) ==
    /\ page = "ExitByIdPage"
    /\ k \in 1..Len(recognizing)
    /\ recognizing' = dropAt(recognizing, k)
    /\ recognitionResult' = result
    /\ IF succeeded(result)
       THEN /\ toast' = IF ById_plateMismatch(result.plate_number,
                                              vehicleData.license_plate)
                        THEN "mismatch" ELSE NoToast
            /\ posted' = NoPost
            /\ settled' = NoOutcome
            /\ plateNumber' = result.plate_number
       ELSE /\ toast' = "not_recognized"
            /\ posted' = NoPost
            /\ settled' = NoOutcome
            /\ UNCHANGED plateNumber
    /\ isRecognizing' = FALSE
    /\ lastEvent' = IF result.present /\ result.success
                    THEN "handleCameraCapture:success"
                    ELSE "handleCameraCapture:failure"
    /\ UNCHANGED <<page, listVars, frameVars, shellVars, cameraStream,
                   isLoadingVehicle, vehicleData, capturedPhoto, entryVars,
                   cameraVars, exitLoadStatus, isSubmittingExit, exitRequests,
                   navigatePending, dialog>>

\* The delete control on the photo.
ById_deletePhoto ==
    /\ Interactive("ExitByIdPage")
    /\ ~isLoadingVehicle
    /\ ~isCameraOpen
    /\ capturedPhoto # NullImage
    /\ capturedPhoto' = NullImage
    /\ recognitionResult' = NullResult
    /\ plateNumber' = <<>>
    /\ toast' = NoToast
    /\ posted' = NoPost
    /\ settled' = NoOutcome
    /\ lastEvent' = "deletePhoto"
    /\ UNCHANGED <<page, listVars, frameVars, shellVars, cameraStream,
                   isLoadingVehicle, vehicleData, isRecognizing, entryVars,
                   cameraVars, exitLoadStatus, isSubmittingExit, exitRequests,
                   recognizing, navigatePending, dialog>>

\* The X button of the camera view, and the back button while it is open.
ById_goBack ==
    /\ Interactive("ExitByIdPage")
    /\ isCameraOpen
    /\ isCameraOpen' = FALSE
    /\ toast' = NoToast
    /\ posted' = NoPost
    /\ settled' = NoOutcome
    /\ lastEvent' = "goBack"
    /\ UNCHANGED <<page, listVars, frameVars, shellVars, cameraStream,
                   byIdVars, entryVars, isCameraLoading, pendingOpenCamera,
                   formVars, recognitionResult, recognizing, navigatePending, dialog>>

\* The back button while the camera view is closed (also on the loading page).
ById_handleBackNavigation ==
    /\ Interactive("ExitByIdPage")
    /\ ~isCameraOpen
    /\ navigateToVehicles
    /\ toast' = NoToast
    /\ posted' = NoPost
    /\ settled' = NoOutcome
    /\ lastEvent' = "handleBackNavigation"

\* The submit button is rendered.
ById_submitOffered ==
    /\ ~isLoadingVehicle
    /\ ~isCameraOpen
    /\ capturedPhoto # NullImage
    /\ trim(plateNumber) # <<>>
    /\ ~isRecognizing

\* submitExit to its await (the fetch of the exit endpoint).
ById_submitExit ==
    /\ Interactive("ExitByIdPage")
    /\ ById_submitOffered
    /\ ~submitDisabled
    /\ IF capturedPhoto = NullImage
       THEN /\ toast' = "take_photo"
            /\ posted' = NoPost
            /\ settled' = NoOutcome
            /\ UNCHANGED <<isSubmittingExit, exitRequests>>
       ELSE IF trim(plateNumber) = <<>>
       THEN /\ toast' = "enter_plate"
            /\ posted' = NoPost
            /\ settled' = NoOutcome
            /\ UNCHANGED <<isSubmittingExit, exitRequests>>
       ELSE /\ exitRequests < MaxInFlight
            /\ isSubmittingExit' = TRUE
            /\ exitRequests' = exitRequests + 1
            /\ posted' = [exit_photo_files |-> <<capturedPhoto>>,
                          license_plate |-> trim(plateNumber),
                          exit_time |-> <<Now>>,
                          exit_load_status |-> exitLoadStatus]
            /\ settled' = NoOutcome
            /\ toast' = NoToast
    /\ lastEvent' = "submitExit"
    /\ UNCHANGED <<page, listVars, frameVars, shellVars, cameraStream,
                   byIdVars, entryVars, cameraVars, plateNumber,
                   exitLoadStatus, recognitionResult, recognizing,
                   navigatePending, dialog>>

\* submitExit after the fetch of one request in flight settles.
ById_submitExitSettle(outcome) ==
    /\ page = "ExitByIdPage"
    /\ exitRequests > 0
    /\ exitRequests' = exitRequests - 1
    /\ posted' = NoPost
    /\ settled' = outcome
    /\ CASE outcome.kind = "notOk" ->
                /\ toast' = errorMessage(outcome)
                /\ UNCHANGED navigatePending
         [] outcome.kind = "ok" ->
                /\ toast' = "success"
                /\ navigatePending' = TRUE
         [] OTHER ->  \* fetch rejected
                /\ toast' = "exception"
                /\ UNCHANGED navigatePending
    /\ isSubmittingExit' = FALSE
    /\ lastEvent' = "submitExitSettle"
    /\ UNCHANGED <<page, listVars, frameVars, shellVars, cameraStream,
                   byIdVars, entryVars, cameraVars, plateNumber,
                   exitLoadStatus, recognitionResult, recognizing, dialog>>

(***************************************************************************)
(* VehiclesPage: the paginated list.  The choices request, the image       *)
(* viewer and the detail popup do not touch the list state and are left    *)
(* out.  The server's list is a chain of pages: the first page is served   *)
(* for the URL without a cursor, page p for the cursor URL p.              *)
(***************************************************************************)
\* The page a request for url is answered with.
pageOf(url) == IF url = NullUrl THEN 1 ELSE url

\* data.results of page p: its entries, numbered through the whole list.
results(p) == [i \in 1..PageSize |-> (p - 1) * PageSize + i]

\* data.next of page p: the cursor URL of the page after it, or null; the
\* list ends at any page the server chooses.
nextOf(p) == {NullUrl} \cup (IF p < MaxPages THEN {p + 1} ELSE {})

\* The isLoadingList guard, mutated: the flag is never read.
Vehicles_isLoadingNever == FALSE

\* The guard read by fetchVehicleEntries and by loadMore.
Vehicles_isLoading == isLoadingList

\* fetchVehicleEntries(url) to its await (the fetch of the page).
Vehicles_fetchVehicleEntries(url) ==
    IF Vehicles_isLoading
    THEN UNCHANGED <<isLoadingList, listRequests>>
    ELSE /\ Len(listRequests) < MaxInFlight
         /\ isLoadingList' = TRUE
         /\ listRequests' = Append(listRequests, [url |-> url])

\* loadMore, the callback handed to InfiniteScroll.
Vehicles_loadMore ==
    /\ page = "VehiclesPage"
    /\ IF nextPageUrl # NullUrl /\ hasMoreData /\ ~Vehicles_isLoading
       THEN Vehicles_fetchVehicleEntries(nextPageUrl)
       ELSE UNCHANGED <<isLoadingList, listRequests>>
    /\ listSettled' = NoListOutcome
    /\ toast' = NoToast
    /\ lastEvent' = "loadMore"
    /\ UNCHANGED <<page, vehicleEntries, hasMoreData, nextPageUrl, cameraStream, frameVars, shellVars,
                   byIdVars, entryVars, cameraVars, formVars, recognitionResult,
                   recognizing, posted, settled, navigatePending, dialog>>

\* The test that a response is applied to the list, mutated: any is.
Vehicles_appliesAnyResponse(kind) == TRUE

\* A response is applied to the list when its status is OK and its body parses.
Vehicles_appliesResponse(kind) == kind = "ok"

\* The list after a page, mutated: every page replaces the list.
Vehicles_replaced(prev, url, pageResults) == pageResults

\* url ? [...prev, ...data.results] : data.results
Vehicles_appended(prev, url, pageResults) ==
    IF url # NullUrl THEN prev \o pageResults ELSE pageResults

\* data.next !== null, mutated: more data is always expected.
Vehicles_hasMoreAlways(next) == TRUE

\* setHasMoreData(data.next !== null)
Vehicles_hasMore(next) == next # NullUrl

\* fetchVehicleEntries after the fetch of the k-th request in flight settles.
Vehicles_fetchVehicleEntriesSettle(k, kind, next) ==
    /\ page = "VehiclesPage"
    /\ k \in 1..Len(listRequests)
    /\ next \in nextOf(pageOf(listRequests[k].url))
    /\ kind # "ok" => next = NullUrl
    /\ listRequests' = dropAt(listRequests, k)
    /\ listSettled' = [kind |-> kind, url |-> listRequests[k].url, next |-> next]
    /\ IF Vehicles_appliesResponse(kind)
       THEN /\ vehicleEntries' = Vehicles_appended(vehicleEntries, listRequests[k].url,
                                                   results(pageOf(listRequests[k].url)))
            /\ nextPageUrl' = next
            /\ hasMoreData' = Vehicles_hasMore(next)
            /\ toast' = NoToast
       ELSE /\ toast' = "list_failed"
            /\ UNCHANGED <<vehicleEntries, nextPageUrl, hasMoreData>>
    /\ isLoadingList' = FALSE
    /\ lastEvent' = "fetchVehicleEntriesSettle"
    /\ UNCHANGED <<page, cameraStream, frameVars, shellVars, byIdVars, entryVars, cameraVars,
                   formVars, recognitionResult, recognizing, posted, settled,
                   navigatePending, dialog>>

\* The back button while no detail popup is open: navigate(-1) leaves the
\* list for the route before it, and the page is unmounted.
Vehicles_handleBackNavigation ==
    /\ page = "VehiclesPage"
    /\ page' = "PreviousRoute"
    /\ vehicleEntries' = <<>>
    /\ isLoadingList' = FALSE
    /\ hasMoreData' = TRUE
    /\ nextPageUrl' = NullUrl
    /\ listRequests' = <<>>
    /\ listSettled' = NoListOutcome
    /\ toast' = NoToast
    /\ lastEvent' = "handleBackNavigation"
    /\ UNCHANGED <<cameraStream, frameVars, shellVars, byIdVars, entryVars, cameraVars,
                   formVars, recognitionResult, recognizing, posted, settled,
                   navigatePending, dialog>>

(***************************************************************************)
(* The specification.                                                      *)
(***************************************************************************)
Next ==
    \/ \E outcome \in {"playing", "playError", "noStream"} : openCameraSettle(outcome)
    \/ dialogConfirm
    \/ navigateTimer
    \/ \E img \in Images : Entry_capturePhoto(img)
    \/ \E k \in 1..MaxInFlight, result \in RecognitionOutcomes :
           Entry_processPhotoSettle(k, result)
    \/ \E index \in 0..MaxPhotos : Entry_deletePhoto(index)
    \/ Entry_openCamera
    \/ Entry_goBack
    \/ Entry_done
    \/ Entry_handleBackNavigation
    \/ Entry_submitExitEntry
    \/ \E outcome \in ExitOutcomes : Entry_submitExitEntrySettle(outcome)
    \/ \E p \in Plates : setPlateNumber(p)
    \/ \E v \in LoadStatuses : setExitLoadStatus(v)
    \/ \E ok \in BOOLEAN, plate \in ExpectedPlates : ById_fetchVehicleDataSettle(ok, plate)
    \/ ById_openCamera
    \/ \E img \in Images : ById_handleCameraCapture(img)
    \/ \E k \in 1..MaxInFlight, result \in RecognitionOutcomes :
           ById_handleCameraCaptureSettle(k, result)
    \/ ById_deletePhoto
    \/ ById_goBack
    \/ ById_handleBackNavigation
    \/ ById_submitExit
    \/ \E outcome \in ExitOutcomes : ById_submitExitSettle(outcome)
    \/ Vehicles_loadMore
    \/ \E k \in 1..MaxInFlight, kind \in ListOutcomeKinds, next \in {NullUrl} \cup CursorUrls :
           Vehicles_fetchVehicleEntriesSettle(k, kind, next)
    \/ Vehicles_handleBackNavigation

Spec == Init /\ [][Next]_vars

(***************************************************************************)
(* Every network call eventually returns or fails: while its page is       *)
(* mounted, the continuation of a handler suspended at a recognition       *)
(* request is eventually run, and so is the continuation of one suspended  *)
(* at an exit request.  (One page is mounted at a time, so one condition   *)
(* covers the handler of either page.)                                     *)
(***************************************************************************)
networkReturns ==
    /\ WF_vars(\E k \in 1..MaxInFlight, result \in RecognitionOutcomes :
                  \/ Entry_processPhotoSettle(k, result)
                  \/ ById_handleCameraCaptureSettle(k, result))
    /\ WF_vars(\E outcome \in ExitOutcomes :
                  \/ Entry_submitExitEntrySettle(outcome)
                  \/ ById_submitExitSettle(outcome))

FairSpec == Spec /\ networkReturns

(***************************************************************************)
(* The size of the captured image (capturePhoto of both pages).  The       *)
(* width and height attributes of a canvas are integers: the quotient is   *)
(* truncated when it is assigned.                                          *)
(***************************************************************************)
canvasSize(videoWidth, videoHeight) ==
    IF videoWidth > maxWidth
    THEN [width |-> maxWidth, height |-> (maxWidth * videoHeight) \div videoWidth]
    ELSE IF videoHeight > maxHeight
    THEN [width |-> (maxHeight * videoWidth) \div videoHeight, height |-> maxHeight]
    ELSE [width |-> videoWidth, height |-> videoHeight]

\* The camera view of an exit page is open and plays a stream of some frame size.
CaptureInit ==
    /\ page \in {"ExitEntryPage", "ExitByIdPage"}
    /\ isLoadingVehicle = FALSE
    /\ vehicleData = NoVehicle
    /\ isCameraOpen = TRUE
    /\ isCameraLoading = FALSE
    /\ isSubmitting = FALSE
    /\ isRecognizing = FALSE
    /\ isSubmittingExit = FALSE
    /\ allPhotos = <<>>
    /\ currentProcessingIndex = -1
    /\ capturedImage = NullImage
    /\ capturedPhoto = NullImage
    /\ recognitionResult = NullResult
    /\ plateNumber = <<>>
    /\ exitLoadStatus = "EMPTY"
    /\ recognizing = <<>>
    /\ exitRequests = 0
    /\ posted = NoPost
    /\ settled = NoOutcome
    /\ pendingOpenCamera = 0
    /\ navigatePending = FALSE
    /\ dialog = NoDialog
    /\ cameraStream = TRUE
    /\ vehicleEntries = <<>>
    /\ isLoadingList = FALSE
    /\ hasMoreData = TRUE
    /\ nextPageUrl = NullUrl
    /\ listRequests = <<>>
    /\ listSettled = NoListOutcome
    /\ video \in [videoWidth : VideoWidths, videoHeight : VideoHeights]
    /\ canvas = DefaultCanvas
    /\ isInputFocused = FALSE
    /\ activeElement = NoElement
    /\ tagName = [e \in Elements |-> "INPUT"]
    /\ toast = NoToast
    /\ lastEvent = "openCameraSettle"

\* capturePhoto of ExitEntryPage, up to drawImage: the canvas is sized.
Entry_drawFrame ==
    /\ Interactive("ExitEntryPage")
    /\ isCameraOpen
    /\ canvas' = canvasSize(video.videoWidth, video.videoHeight)
    /\ lastEvent' = "drawFrame"
    /\ UNCHANGED <<page, listVars, cameraStream, video, shellVars, byIdVars,
                   entryVars, cameraVars, formVars, recognitionResult, recognizing, posted,
                   settled, navigatePending, dialog, toast>>

\* capturePhoto of ExitByIdPage, up to drawImage: the canvas is sized.
ById_drawFrame ==
    /\ Interactive("ExitByIdPage")
    /\ isCameraOpen
    /\ canvas' = canvasSize(video.videoWidth, video.videoHeight)
    /\ lastEvent' = "drawFrame"
    /\ UNCHANGED <<page, listVars, cameraStream, video, shellVars, byIdVars,
                   entryVars, cameraVars, formVars, recognitionResult, recognizing, posted,
                   settled, navigatePending, dialog, toast>>

CaptureNext ==
    \/ Entry_drawFrame
    \/ ById_drawFrame

CaptureSpec == CaptureInit /\ [][CaptureNext]_vars

(***************************************************************************)
(* The shell (Layout).  Its effect registers handleFocusIn and            *)
(* handleFocusOut on the document; the tab bar Card is moved off screen    *)
(* while isInputFocused is true.  The browser dispatches focusout on the   *)
(* element that loses the focus and then focusin on the one that gains it, *)
(* both within one task, so a direct move runs both handlers in one step.  *)
(* The document's elements are drawn in LayoutInit.                        *)
(***************************************************************************)
\* handleFocusIn, mutated: only INPUT counts.
handleFocusInInputOnly(target, focused) ==
    IF target = "INPUT" THEN TRUE ELSE focused

\* handleFocusIn: target is e.target.tagName, focused the state before.
handleFocusIn(target, focused) ==
    IF target = "INPUT" \/ target = "TEXTAREA" THEN TRUE ELSE focused

\* handleFocusOut
handleFocusOut(target, focused) ==
    IF target = "INPUT" \/ target = "TEXTAREA" THEN FALSE ELSE focused

\* The tab bar Card: translateY(100%), opacity 0, pointerEvents none.
tabBarHidden == isInputFocused

pageVars == <<page, listVars, cameraStream, frameVars, byIdVars, entryVars,
              cameraVars, formVars, recognitionResult, recognizing, posted,
              settled, navigatePending, dialog, toast>>

LayoutInit ==
    /\ page = "IndexPage"
    /\ isLoadingVehicle = FALSE
    /\ vehicleData = NoVehicle
    /\ isCameraOpen = FALSE
    /\ isCameraLoading = FALSE
    /\ isSubmitting = FALSE
    /\ isRecognizing = FALSE
    /\ isSubmittingExit = FALSE
    /\ allPhotos = <<>>
    /\ currentProcessingIndex = -1
    /\ capturedImage = NullImage
    /\ capturedPhoto = NullImage
    /\ recognitionResult = NullResult
    /\ plateNumber = <<>>
    /\ exitLoadStatus = "EMPTY"
    /\ recognizing = <<>>
    /\ exitRequests = 0
    /\ posted = NoPost
    /\ settled = NoOutcome
    /\ pendingOpenCamera = 0
    /\ navigatePending = FALSE
    /\ dialog = NoDialog
    /\ cameraStream = FALSE
    /\ vehicleEntries = <<>>
    /\ isLoadingList = FALSE
    /\ hasMoreData = TRUE
    /\ nextPageUrl = NullUrl
    /\ listRequests = <<>>
    /\ listSettled = NoListOutcome
    /\ video = NoVideo
    /\ canvas = DefaultCanvas
    /\ isInputFocused = FALSE
    /\ activeElement = NoElement
    /\ tagName \in [Elements -> Tags]
    /\ toast = NoToast
    /\ lastEvent = "mount"

\* An element takes the focus while none has it: focusin on it.
Layout_focus(e) ==
    /\ activeElement = NoElement
    /\ activeElement' = e
    /\ isInputFocused' = handleFocusIn(tagName[e], isInputFocused)
    /\ lastEvent' = "focusin"
    /\ UNCHANGED <<pageVars, tagName>>

\* The focused element loses the focus to none: focusout on it.
Layout_blur ==
    /\ activeElement # NoElement
    /\ activeElement' = NoElement
    /\ isInputFocused' = handleFocusOut(tagName[activeElement], isInputFocused)
    /\ lastEvent' = "focusout"
    /\ UNCHANGED <<pageVars, tagName>>

\* The focus moves from one element to another: focusout, then focusin.
Layout_moveFocus(e) ==
    /\ activeElement # NoElement
    /\ e # activeElement
    /\ activeElement' = e
    /\ isInputFocused' =
           handleFocusIn(tagName[e],
                         handleFocusOut(tagName[activeElement], isInputFocused))
    /\ lastEvent' = "focusout,focusin"
    /\ UNCHANGED <<pageVars, tagName>>

LayoutNext ==
    \/ \E e \in Elements : Layout_focus(e)
    \/ Layout_blur
    \/ \E e \in Elements : Layout_moveFocus(e)

LayoutSpec == LayoutInit /\ [][LayoutNext]_vars

(***************************************************************************)
(* Helpers of the properties.                                              *)
(***************************************************************************)
\* A string that is empty after trimming: it holds whitespace only.
IsBlank(str) == \A i \in 1..Len(str) : str[i] \in Whitespace

\* The plate as compared by the claim: whitespace removed, uppercased.
Normalized(str) == toUpperCase(removeWhitespace(str))

\* shorter is longer without its element at 1-based position pos.
WithoutPosition(longer, shorter, pos) ==
    /\ Len(shorter) = Len(longer) - 1
    /\ \A i \in 1..Len(shorter) :
          shorter[i] = IF i < pos THEN longer[i] ELSE longer[i + 1]

\* The photos of allPhotos marked accepted (1-based positions).
MarkedAccepted == {i \in 1..Len(allPhotos) : Entry_isSuccessfulPhoto(i)}

RecognitionSettled ==
    lastEvent' \in {"processPhoto:success", "processPhoto:failure",
                    "handleCameraCapture:success", "handleCameraCapture:failure"}

(***************************************************************************)
(* C1.  ExitEntryPage: at most one photo of allPhotos is marked accepted   *)
(* (it equals capturedImage while recognitionResult.success).              *)
(***************************************************************************)
C1_AtMostOneMarkedAccepted ==
    page = "ExitEntryPage" => Cardinality(MarkedAccepted) <= 1

(***************************************************************************)
(* C2.  ExitEntryPage: while a result is accepted no recognition request   *)
(* is outstanding, and a capture neither starts one nor changes            *)
(* recognitionResult, capturedImage or plateNumber.                        *)
(***************************************************************************)
C2_AcceptedSuppressesCaptures ==
    /\ [](page = "ExitEntryPage" /\ succeeded(recognitionResult)
            => recognizing = <<>> /\ ~isSubmitting)
    /\ [][(page = "ExitEntryPage" /\ succeeded(recognitionResult)
             /\ lastEvent' = "capturePhoto")
          => /\ recognizing' = <<>>
             /\ UNCHANGED <<recognitionResult, capturedImage, plateNumber,
                            isSubmitting, currentProcessingIndex>>]_vars

\* A capture was taken while a result was accepted.
C2_Witness ==
    /\ page = "ExitEntryPage"
    /\ lastEvent = "capturePhoto"
    /\ succeeded(recognitionResult)
    /\ Len(allPhotos) = 2

(***************************************************************************)
(* C3.  ExitEntryPage: at most one recognition request is outstanding,     *)
(* and one is outstanding exactly while isSubmitting.                      *)
(***************************************************************************)
C3_OneRecognitionOutstanding ==
    page = "ExitEntryPage" =>
        /\ Len(recognizing) <= 1
        /\ isSubmitting <=> Len(recognizing) = 1

\* The camera was closed and reopened while a request was outstanding.
C3_Witness ==
    /\ page = "ExitEntryPage"
    /\ lastEvent = "openCamera"
    /\ Len(recognizing) = 1
    /\ isSubmitting

(***************************************************************************)
(* C4.  ExitByIdPage: a capture is not submitted for recognition while an  *)
(* earlier request of the page is outstanding.                             *)
(***************************************************************************)
C4_OneRecognitionOutstanding ==
    page = "ExitByIdPage" => Len(recognizing) <= 1

(***************************************************************************)
(* C5, as claimed.  A recognition response that arrives while the camera   *)
(* view is closed changes neither the plate field nor the accepted result  *)
(* or image.  (The view was closed by the user or by the capture, not by   *)
(* a camera failure: no alert is up.)                                      *)
(***************************************************************************)
C5_ClosedViewDropsResponse ==
    [][(~isCameraOpen /\ dialog = NoDialog /\ RecognitionSettled)
       => UNCHANGED <<plateNumber, recognitionResult, capturedImage>>]_vars

(***************************************************************************)
(* C5, amended.  Closing the camera view cancels nothing: a successful     *)
(* response that arrives while the view is closed is applied as when it    *)
(* is open.  It sets recognitionResult to the result and plateNumber to    *)
(* its plate, and in ExitEntryPage capturedImage to the submitted image;   *)
(* a failed one leaves plateNumber (and in ExitEntryPage the accepted      *)
(* result and image) as they were.                                         *)
(***************************************************************************)
C5_ClosedViewAppliesResponse ==
    [][(~isCameraOpen /\ RecognitionSettled) =>
         /\ lastEvent' = "processPhoto:success" =>
               /\ succeeded(recognitionResult')
               /\ plateNumber' = recognitionResult'.plate_number
               /\ \E k \in 1..Len(recognizing) :
                     capturedImage' = recognizing[k].imageData
         /\ lastEvent' = "handleCameraCapture:success" =>
               /\ succeeded(recognitionResult')
               /\ plateNumber' = recognitionResult'.plate_number
         /\ lastEvent' = "processPhoto:failure" =>
               UNCHANGED <<plateNumber, recognitionResult, capturedImage>>
         /\ lastEvent' = "handleCameraCapture:failure" =>
               /\ ~succeeded(recognitionResult')
               /\ UNCHANGED plateNumber]_vars

\* ExitEntryPage: a result was accepted while the camera view was closed
\* (the response leaves isCameraOpen as it was).
C5_Witness ==
    /\ page = "ExitEntryPage"
    /\ lastEvent = "processPhoto:success"
    /\ ~isCameraOpen
    /\ succeeded(recognitionResult)
    /\ plateNumber = recognitionResult.plate_number

(***************************************************************************)
(* C6.  ExitEntryPage: deleting a photo removes exactly that photo, and    *)
(* when the photo is the accepted one it sets recognitionResult and        *)
(* capturedImage to null and plateNumber to the empty string, and calls    *)
(* openCamera (isCameraOpen and isCameraLoading become true).              *)
(***************************************************************************)
C6_DeleteAcceptedClearsAndReopens ==
    [][(page = "ExitEntryPage" /\ lastEvent' = "deletePhoto") =>
         \E pos \in 1..Len(allPhotos) :
            /\ WithoutPosition(allPhotos, allPhotos', pos)
            /\ Entry_isSuccessfulPhoto(pos) =>
                  /\ recognitionResult' = NullResult
                  /\ capturedImage' = NullImage
                  /\ plateNumber' = <<>>
                  /\ isCameraOpen' /\ isCameraLoading'
                  /\ pendingOpenCamera' = pendingOpenCamera + 1]_vars

\* The accepted photo was deleted, one other photo is left, and the camera
\* is opening again.
C6_Witness ==
    /\ page = "ExitEntryPage"
    /\ lastEvent = "deletePhoto"
    /\ recognitionResult = NullResult
    /\ capturedImage = NullImage
    /\ plateNumber = <<>>
    /\ isCameraOpen /\ isCameraLoading
    /\ pendingOpenCamera = 1
    /\ Len(allPhotos) = 1

(***************************************************************************)
(* C7.  ExitEntryPage: whenever a result is accepted, the accepted image   *)
(* is one of the photos in allPhotos.                                      *)
(***************************************************************************)
C7_AcceptedImageIsHeld ==
    (page = "ExitEntryPage" /\ succeeded(recognitionResult))
        => \E i \in 1..Len(allPhotos) : allPhotos[i] = capturedImage

(***************************************************************************)
(* C8.  Both pages: a submit action always POSTs, and what is POSTed       *)
(* comes from a state whose plate is not blank and that holds a photo:     *)
(* the posted plate is not blank and at least one photo file is posted.    *)
(***************************************************************************)
C8_NoPostWithoutPlateAndPhoto ==
    /\ lastEvent \in {"submitExitEntry", "submitExit"} => posted # NoPost
    /\ posted # NoPost =>
          /\ ~IsBlank(plateNumber)
          /\ ~IsBlank(posted.license_plate)
          /\ Len(posted.exit_photo_files) > 0
          /\ page = "ExitEntryPage" => Len(allPhotos) > 0
          /\ page = "ExitByIdPage" => capturedPhoto # NullImage

\* A POST whose plate was trimmed on the way.
C8_Witness ==
    /\ posted # NoPost
    /\ posted.license_plate # plateNumber
    /\ page = "ExitByIdPage"

(***************************************************************************)
(* C9, as claimed.  ExitByIdPage, after a successful recognition with a    *)
(* non-empty plate: no mismatch warning when the recognized plate equals   *)
(* the expected one (whitespace removed, uppercased), a mismatch warning   *)
(* for any other plate, and the plate field holds the recognized value.    *)
(***************************************************************************)
C9_WarningIffPlatesDiffer ==
    (lastEvent = "handleCameraCapture:success"
       /\ recognitionResult.plate_number # <<>>) =>
        /\ toast = "mismatch" <=>
              Normalized(recognitionResult.plate_number)
                 # Normalized(vehicleData.license_plate)
        /\ plateNumber = recognitionResult.plate_number

(***************************************************************************)
(* C9, amended.  As claimed when an expected plate is known (it is not     *)
(* empty once whitespace is removed); when none is known no mismatch       *)
(* warning is shown, whatever was recognized.  The plate field holds the   *)
(* recognized value either way.                                            *)
(***************************************************************************)
C9_WarningIffKnownPlateDiffers ==
    (lastEvent = "handleCameraCapture:success"
       /\ recognitionResult.plate_number # <<>>) =>
        /\ toast = "mismatch" <=>
              /\ Normalized(vehicleData.license_plate) # <<>>
              /\ Normalized(recognitionResult.plate_number)
                    # Normalized(vehicleData.license_plate)
        /\ toast \in {"mismatch", NoToast}
        /\ plateNumber = recognitionResult.plate_number

\* A plate that differs from the expected one only in case and whitespace
\* was recognized: no warning, the field holds it as returned.
C9_Witness ==
    /\ lastEvent = "handleCameraCapture:success"
    /\ vehicleData.license_plate = <<"A">>
    /\ recognitionResult.plate_number = <<"a", " ">>
    /\ plateNumber = <<"a", " ">>
    /\ toast = NoToast

(***************************************************************************)
(* C10.  Both pages: the step that handles a non-2xx response to an exit   *)
(* POST neither navigates nor schedules a navigation, shows the body's     *)
(* error.message when the body is JSON with a non-empty error.message and  *)
(* the generic notice otherwise, leaves the photos, the plate and the load *)
(* status as they were, and re-enables submit.                             *)
(***************************************************************************)
C10_FailedSubmitKeepsForm ==
    [][settled'.kind = "notOk" =>
         /\ page' = page
         /\ navigatePending' = navigatePending
         /\ toast' = IF settled'.json /\ settled'.message # ""
                     THEN settled'.message ELSE GenericFailure
         /\ UNCHANGED <<allPhotos, capturedPhoto, plateNumber, exitLoadStatus>>
         /\ isSubmittingExit' = FALSE]_vars

\* The server answered non-2xx with {error: {message: "Duplicate entry"}}.
C10_Witness ==
    /\ settled.kind = "notOk"
    /\ toast = "Duplicate entry"
    /\ page \in {"ExitEntryPage", "ExitByIdPage"}
    /\ ~navigatePending
    /\ ~isSubmittingExit

(***************************************************************************)
(* C11, as claimed.  Both pages: when the recognition of a capture fails   *)
(* and nothing else happened since the capture, the camera view is open,   *)
(* the plate field is as it was, and the capture control is enabled.       *)
(***************************************************************************)
C11_FailedCaptureKeepsCameraOpen ==
    [][(lastEvent \in {"capturePhoto", "handleCameraCapture"}
          /\ lastEvent' \in {"processPhoto:failure", "handleCameraCapture:failure"})
       => /\ isCameraOpen'
          /\ plateNumber' = plateNumber
          /\ page' = "ExitEntryPage" => ~isSubmitting']_vars

(***************************************************************************)
(* C11, amended.  A failed recognition sets no plate on either page.  In   *)
(* ExitEntryPage the camera view stays open and the capture control is     *)
(* enabled again at once.  In ExitByIdPage the capture itself closed the   *)
(* view and holds the photo: the failure shows the "not recognized"        *)
(* notice, the view stays closed and the photo stays held, so another      *)
(* capture takes deleting the photo and opening the camera again.          *)
(***************************************************************************)
C11_FailedCaptureSetsNoPlate ==
    [][(lastEvent \in {"capturePhoto", "handleCameraCapture"}
          /\ lastEvent' \in {"processPhoto:failure", "handleCameraCapture:failure"})
       => /\ plateNumber' = plateNumber
          /\ page' = "ExitEntryPage" =>
                /\ isCameraOpen' /\ dialog' = NoDialog
                /\ ~isSubmitting' /\ currentProcessingIndex' = -1
                /\ UNCHANGED <<recognitionResult, capturedImage, allPhotos>>
          /\ page' = "ExitByIdPage" =>
                /\ ~isCameraOpen'
                /\ capturedPhoto' = capturedPhoto /\ capturedPhoto' # NullImage
                /\ ~succeeded(recognitionResult')
                /\ toast' = "not_recognized"]_vars

\* ExitEntryPage: the first capture failed; the view is open, no plate is
\* set, the photo is kept and the capture control is enabled.
C11_Witness ==
    /\ page = "ExitEntryPage"
    /\ lastEvent = "processPhoto:failure"
    /\ isCameraOpen /\ ~isSubmitting /\ dialog = NoDialog
    /\ Len(allPhotos) = 1
    /\ plateNumber = <<>>
    /\ recognitionResult = NullResult

(***************************************************************************)
(* Helpers of the list properties.                                         *)
(***************************************************************************)
\* The results of the first n pages of the server's chain, in its order.
RECURSIVE PagesConcat(_)
PagesConcat(n) == IF n = 0 THEN <<>> ELSE PagesConcat(n - 1) \o results(n)

\* The last step handled a page response that failed.
ListFetchFailed == listSettled.kind \in {"notOk", "throw"}

(***************************************************************************)
(* C12.  VehiclesPage: at most one page request is in flight, so no two    *)
(* requests in flight ask for the same URL, and while one is in flight     *)
(* isLoadingList is set.                                                   *)
(***************************************************************************)
C12_OnePageRequestInFlight ==
    page = "VehiclesPage" =>
        /\ Len(listRequests) <= 1
        /\ \A i, j \in 1..Len(listRequests) :
              i # j => listRequests[i].url # listRequests[j].url
        /\ listRequests # <<>> => isLoadingList

\* After the first page, loadMore was called and the request for the
\* second page is in flight.
C12_Witness ==
    /\ page = "VehiclesPage"
    /\ lastEvent = "loadMore"
    /\ vehicleEntries = results(1)
    /\ nextPageUrl = 2
    /\ listRequests = <<[url |-> 2]>>
    /\ isLoadingList

(***************************************************************************)
(* C13.  VehiclesPage: a successful page response whose next is null       *)
(* leaves hasMoreData false; while hasMoreData is false nextPageUrl is     *)
(* null and no page request is in flight; and hasMoreData stays false as   *)
(* long as the page is mounted, so no later loadMore issues a request.     *)
(***************************************************************************)
C13_NoRequestAfterLastPage ==
    /\ [](page = "VehiclesPage" /\ listSettled.kind = "ok" /\ listSettled.next = NullUrl
            => ~hasMoreData)
    /\ [](page = "VehiclesPage" /\ ~hasMoreData
            => nextPageUrl = NullUrl /\ listRequests = <<>> /\ ~isLoadingList)
    /\ [][(page = "VehiclesPage" /\ ~hasMoreData /\ page' = "VehiclesPage")
            => ~hasMoreData' /\ listRequests' = <<>>]_vars

\* loadMore was called after the second page had ended the list.
C13_Witness ==
    /\ page = "VehiclesPage"
    /\ lastEvent = "loadMore"
    /\ ~hasMoreData
    /\ nextPageUrl = NullUrl
    /\ Len(vehicleEntries) = 2 * PageSize
    /\ listRequests = <<>>

(***************************************************************************)
(* C14.  VehiclesPage: vehicleEntries is the concatenation of the results  *)
(* of the first n pages of the server's chain, in its order, for some n;   *)
(* a cursor held in nextPageUrl is the one of page n + 1.                  *)
(***************************************************************************)
C14_EntriesAreThePagesInOrder ==
    page = "VehiclesPage" =>
        \E n \in 0..MaxPages :
            /\ vehicleEntries = PagesConcat(n)
            /\ nextPageUrl # NullUrl => n >= 1 /\ nextPageUrl = n + 1

\* Every page of the chain was fetched.
C14_Witness ==
    /\ page = "VehiclesPage"
    /\ Len(vehicleEntries) = MaxPages * PageSize
    /\ lastEvent = "fetchVehicleEntriesSettle"
    /\ listSettled.kind = "ok"

C15_FailedOpenClosesAndAlerts ==
    [][(lastEvent' = "openCameraSettle" /\ (~cameraStream' \/ ~isCameraOpen))
       => /\ ~isCameraOpen'
          /\ ~isCameraLoading'
          /\ dialog' = "cameraError"]_vars

\* ExitByIdPage: the stream was obtained, but the view had been closed and
\* the video element was gone.
C15_Witness ==
    /\ page = "ExitByIdPage"
    /\ lastEvent = "openCameraSettle"
    /\ cameraStream
    /\ ~isCameraOpen
    /\ ~isCameraLoading
    /\ dialog = "cameraError"

(***************************************************************************)
(* C16.  A workflow whose camera view is closed and that is not opening    *)
(* it, or that has ended (its page is unmounted), holds no camera stream:  *)
(* the stream it obtained from the camera service is no longer active.     *)
(***************************************************************************)
C16_ClosedWorkflowHoldsNoStream ==
    (page \notin {"ExitEntryPage", "ExitByIdPage"}
       \/ (~isCameraOpen /\ pendingOpenCamera = 0))
        => ~cameraStream

(***************************************************************************)
(* C17.  Both pages, for every frame size with positive dimensions: the    *)
(* captured image is at most 1280 wide and at most 720 high, keeps the     *)
(* frame's aspect ratio up to the rounding of one dimension to a whole     *)
(* pixel, and a frame within 1280 x 720 keeps its size.                    *)
(***************************************************************************)
C17_CapturedImageFitsAndKeepsRatio ==
    lastEvent = "drawFrame" =>
        LET d == canvas.width * video.videoHeight - canvas.height * video.videoWidth
        IN  /\ canvas.width <= maxWidth
            /\ canvas.height <= maxHeight
            /\ d < video.videoWidth /\ -d < video.videoHeight
            /\ (video.videoWidth <= maxWidth /\ video.videoHeight <= maxHeight)
                  => canvas = [width |-> video.videoWidth, height |-> video.videoHeight]

(***************************************************************************)
(* C18.  ExitEntryPage: the request of a submit carries one file per photo *)
(* of allPhotos, in its order (accepted, failed and skipped ones alike),   *)
(* the plate field without its leading and trailing whitespace, the        *)
(* selected load status and exactly one timestamp.                         *)
(***************************************************************************)
C18_SubmitCarriesAllPhotos ==
    [][lastEvent' = "submitExitEntry" =>
         /\ posted'.exit_photo_files = allPhotos
         /\ \E i, j \in 0..Len(plateNumber) :
               /\ i + j <= Len(plateNumber)
               /\ posted'.license_plate = SubSeq(plateNumber, i + 1, Len(plateNumber) - j)
               /\ IsBlank(SubSeq(plateNumber, 1, i))
               /\ IsBlank(SubSeq(plateNumber, Len(plateNumber) - j + 1, Len(plateNumber)))
         /\ posted'.license_plate # <<>>
         /\ Head(posted'.license_plate) \notin Whitespace
         /\ posted'.license_plate[Len(posted'.license_plate)] \notin Whitespace
         /\ posted'.exit_load_status = exitLoadStatus
         /\ posted'.exit_time = <<Now>>
         /\ UNCHANGED <<allPhotos, plateNumber, exitLoadStatus>>]_vars

\* Two photos were submitted although none was recognized; the plate was
\* typed by hand.
C18_Witness ==
    /\ page = "ExitEntryPage"
    /\ lastEvent = "submitExitEntry"
    /\ Len(posted.exit_photo_files) = 2
    /\ posted.exit_photo_files = allPhotos
    /\ recognitionResult = NullResult
    /\ posted.license_plate = <<"B">>
    /\ posted.exit_load_status = "LOADED"

C21_CaptureOnlyWhenCameraReady ==
    [][lastEvent' \in {"capturePhoto", "handleCameraCapture"}
         => (isCameraOpen /\ ~isCameraLoading /\ cameraStream)]_vars

(***************************************************************************)
(* C22.  The shell: after any sequence of focus events the tab bar is      *)
(* hidden exactly when the element that has the focus is an INPUT or a     *)
(* TEXTAREA; this covers a direct move from one input to another (still    *)
(* hidden) and focus events on other elements (no change).                 *)
(***************************************************************************)
C22_TabBarHiddenIffInputHasFocus ==
    tabBarHidden <=> /\ activeElement # NoElement
                     /\ tagName[activeElement] \in {"INPUT", "TEXTAREA"}

\* The focus has moved directly from an input to a textarea.
C22_Witness ==
    /\ lastEvent = "focusout,focusin"
    /\ activeElement # NoElement
    /\ tagName[activeElement] = "TEXTAREA"
    /\ \E e \in Elements \ {activeElement} : tagName[e] = "INPUT"
    /\ tabBarHidden

(***************************************************************************)
(* C23.  ExitByIdPage: whenever no photo is held the plate field is        *)
(* empty; a recognition response that arrives after the photo was deleted  *)
(* does not fill it.                                                       *)
(***************************************************************************)
C23_NoPhotoNoPlate ==
    (page = "ExitByIdPage" /\ capturedPhoto = NullImage) => plateNumber = <<>>

(***************************************************************************)
(* C24.  Both pages: once an exit submission of the page has succeeded     *)
(* and its delayed navigation to the list is pending, the page issues no   *)
(* further exit POST.                                                      *)
(***************************************************************************)
C24_NoPostAfterSuccess ==
    [][(page \in {"ExitEntryPage", "ExitByIdPage"} /\ navigatePending)
          => posted' = NoPost]_vars

(***************************************************************************)
(* C25.  Both pages: at most one exit POST of the page is in flight at any *)
(* time, and no step taken while isSubmittingExit is true starts one.      *)
(***************************************************************************)
C25_OneExitPostInFlight ==
    [][/\ exitRequests' <= 1
       /\ isSubmittingExit => posted' = NoPost]_vars

\* A request is in flight while the form could otherwise be submitted.
C25_Witness ==
    /\ exitRequests = 1
    /\ isSubmittingExit
    /\ page = "ExitEntryPage" => Entry_submitOffered
    /\ page = "ExitByIdPage" => ById_submitOffered
    /\ page \in {"ExitEntryPage", "ExitByIdPage"}
    /\ dialog = NoDialog

(***************************************************************************)
(* C26.  Both pages: when the user closes the camera view (X or back)      *)
(* while openCamera is still waiting, the continuation of openCamera       *)
(* raises no camera-failure alert for the view the user closed.            *)
(***************************************************************************)
C26_CloseWhileOpeningRaisesNoAlert ==
    [][(/\ lastEvent = "goBack"
        /\ page \in {"ExitEntryPage", "ExitByIdPage"}
        /\ ~isCameraOpen
        /\ lastEvent' = "openCameraSettle")
          => dialog' = NoDialog]_vars

(***************************************************************************)
(* C27.  ExitEntryPage: whenever currentProcessingIndex is not -1 it is an *)
(* index of allPhotos, and the photo at that index is the one whose        *)
(* recognition request is outstanding, also after photos were deleted      *)
(* while the request is in flight.                                         *)
(***************************************************************************)
C27_ProcessingIndexNamesOutstandingPhoto ==
    (page = "ExitEntryPage" /\ currentProcessingIndex # -1)
        => /\ currentProcessingIndex \in 0..(Len(allPhotos) - 1)
           /\ \E k \in 1..Len(recognizing) :
                 recognizing[k].imageData = allPhotos[currentProcessingIndex + 1]

(***************************************************************************)
(* C28.  ExitEntryPage: in every reachable state isSubmitting is true      *)
(* exactly when currentProcessingIndex is not -1.                          *)
(***************************************************************************)
C28_SubmittingIffProcessingIndex ==
    page = "ExitEntryPage" => (isSubmitting <=> currentProcessingIndex # -1)

\* A recognition is outstanding and both say so.
C28_Witness ==
    /\ page = "ExitEntryPage"
    /\ isSubmitting
    /\ currentProcessingIndex = 1
    /\ Len(recognizing) = 1

(***************************************************************************)
(* C29.  ExitEntryPage: deleting a photo that is not the accepted one      *)
(* removes exactly that photo and leaves recognitionResult, capturedImage, *)
(* plateNumber and isCameraOpen unchanged, also when the deleted photo has *)
(* the same content as the accepted one.  A photo is known not to be the   *)
(* accepted one when its content differs from capturedImage, when no       *)
(* result is accepted, or when it is the last photo and was captured in    *)
(* the previous step while a result was already accepted (it was never     *)
(* sent for recognition).                                                  *)
(***************************************************************************)
C29_DeleteOtherPhotoKeepsResult ==
    [][(page = "ExitEntryPage" /\ lastEvent' = "deletePhoto") =>
         /\ \E pos \in 1..Len(allPhotos) :
               WithoutPosition(allPhotos, allPhotos', pos)
         /\ \A pos \in 1..Len(allPhotos) :
               (/\ WithoutPosition(allPhotos, allPhotos', pos)
                /\ \/ ~Entry_isSuccessfulPhoto(pos)
                   \/ /\ pos = Len(allPhotos)
                      /\ lastEvent = "capturePhoto"
                      /\ ~isSubmitting
                      /\ succeeded(recognitionResult))
                  => UNCHANGED <<recognitionResult, capturedImage,
                                 plateNumber, isCameraOpen>>]_vars

====
